---- MODULE Spec2Model ----
(***************************************************************************)
(* A model of the pyside_config package: configuration classes whose       *)
(* fields are persisted in the QSettings store, the registries that keep   *)
(* one instance per name, and the editor widgets bound to the fields.      *)
(*                                                                         *)
(* The package ships several generations of the same API side by side.     *)
(* An application uses one of them; the variable `api` records which:      *)
(*   "_pyside_config"  the `config` decorator and the module functions of  *)
(*                     _pyside_config.py (registry `_config_registry`)     *)
(*   "registry"        base.py ConfigBase with registry.py ConfigRegistry  *)
(*   "config_manager"  _base.py ConfigBase with config_manager.py          *)
(*   "config"          config_define and the functions of config.py        *)
(* Each has its specification (Spec, SpecPersist, SpecLegacy, SpecEditor); *)
(* SpecManager is the ConfigManagerBase of _config_manager.py.             *)
(* The QSettings store is modelled as a map from paths <<group, key>> to   *)
(* values, with a flag for writes that were not yet synced.                *)
(***************************************************************************)
EXTENDS Integers, Sequences, FiniteSets, TLC

VARIABLES
    api,                \* the module of the package the application uses
    qsettings,          \* the QSettings store: [data, dirty]
    inst,               \* the config instances alive: id -> [cls, vals]
    _config_registry,   \* _pyside_config._config_registry: name -> id
    _registry,          \* ConfigRegistry._registry / ConfigManager._registry
    config_registry,    \* config.config_registry: name -> id
    editors,            \* the editors built by create_editor
    _configs,           \* ConfigManagerBase._configs: [fwdm, invm] of a bidict
    _mutex,             \* ConfigManagerBase._mutex: the thread that holds it, 0
    threads,            \* the call each thread is in on the manager
    snapshot,           \* the dict the last create_snapshot returned
    last                \* the last operation, its arguments and its outcome

manager == <<_configs, _mutex, threads>>

vars == <<api, qsettings, inst, _config_registry, _registry, config_registry,
          editors, manager, snapshot, last>>

(***************************************************************************)
(* Bounds of the model.                                                    *)
(***************************************************************************)
MaxInst == 2        \* config instances alive at the same time
MaxEditors == 1     \* calls of create_editor
MaxThreads == 2     \* threads that call the ConfigManagerBase

(***************************************************************************)
(* Values.  A value is a token that carries its Python type: "i0", "i1"    *)
(* are the ints 0 and 1, "s1" is the str "1", "cR" is a QColor and "sR"    *)
(* the str its name() returns, Factory is an attrs Factory object (the     *)
(* `default` of a field declared with a factory).                          *)
(***************************************************************************)
Factory == "Factory"
IntValues == {"i0", "i1"}

Apis == {"_pyside_config", "registry", "config_manager", "config"}

\* The values user code and widgets assign to fields: a str for the classes
\* that may declare a __qtype, a QColor for the subclasses of ConfigBase.
Assignable(a) ==
    IF a \in {"_pyside_config", "config"} THEN {"s1"} ELSE {"cR"}

\* isinstance(value, QtGui.QColor)
isQColor(v) == v = "cR"

\* QColor.name()
name(v) == "sR"

\* What QSettings.value(..., type=qtype) makes of the QVariant it found:
\* for int, QVariant.toFloat() then int(): a str that spells a number is
\* parsed, anything else that is not a number gives 0.
ToQType(qt, v) ==
    IF qt = "int"
    THEN (IF v \in IntValues THEN v ELSE IF v = "s1" THEN "i1" ELSE "i0")
    ELSE v

(***************************************************************************)
(* The configuration classes of the application.                           *)
(*   A   @config                    x: default 0, __qtype int, editor      *)
(*                                  y: default Factory, no editor          *)
(*   A2  @config(group_name="A")    x: default 1, editor                   *)
(*   B   @config(group_name="Bg")   x: default 0, editor                   *)
(*   K   the older apis             x: default 0, __qtype int, editor      *)
(*                                  y: default Factory, no editor          *)
(*   L   the older apis             x: default 1, editor                   *)
(***************************************************************************)
Classes == {"A", "A2", "B", "K", "L"}
ClassesOf(a) == IF a = "_pyside_config" THEN {"A", "B"} ELSE {"K", "L"}

\* the group_name argument of @config ("" when it is not given)
group_name(c) == IF c = "A2" THEN "A" ELSE IF c = "B" THEN "Bg" ELSE ""

\* cls.__name__
__name__(c) == c

\* cls.__group_prefix__ = group_name or cls.__name__
__group_prefix__(c) == IF group_name(c) # "" THEN group_name(c) ELSE __name__(c)

\* attrs.fields(cls), in declaration order
_get_fields(c) == IF c \in {"A", "K"} THEN <<"x", "y">> ELSE <<"x">>
FieldNames(c) == {_get_fields(c)[k] : k \in 1 .. Len(_get_fields(c))}

\* field.default
default(c, f) ==
    CASE c \in {"A", "K"} -> (IF f = "x" THEN "i0" ELSE Factory)
      [] c = "B"          -> "i0"
      [] OTHER            -> "i1"

\* default.factory(): the factories of the model return the int 1
factory(d) == "i1"

\* field.metadata.get(QTYPE_KEY, None)
qtype(c, f) == IF c \in {"A", "K"} /\ f = "x" THEN "int" ELSE "None"

\* field.metadata.get("editor", None) is set
editor_info(c, f) == f = "x"

\* hasattr(inst, key): a field, or a method the decorator installed
Methods == {"to_qsettings"}
hasattr(c, key) == key \in FieldNames(c) \cup Methods

(***************************************************************************)
(* The QSettings store.                                                    *)
(***************************************************************************)
\* QSettings.setValue
setValue(qs, path, v) ==
    [data  |-> [p \in DOMAIN qs.data \cup {path} |->
                    IF p = path THEN v ELSE qs.data[p]],
     dirty |-> TRUE]

\* QSettings.sync
sync(qs) == [qs EXCEPT !.dirty = FALSE]

\* QSettings.value(path, defaultValue)
value(qs, path, defaultValue) ==
    IF path \in DOMAIN qs.data THEN qs.data[path] ELSE defaultValue

\* QSettings.childGroups
childGroups(qs) == {p[1] : p \in DOMAIN qs.data}

\* QSettings.remove(group): the group and every key below it
remove(qs, g) ==
    [data  |-> [p \in {q \in DOMAIN qs.data : q[1] # g} |-> qs.data[p]],
     dirty |-> TRUE]

\* QSettings.clear
clear(qs) == [data |-> <<>>, dirty |-> TRUE]

EmptyStore == [data |-> <<>>, dirty |-> FALSE]

(***************************************************************************)
(* Registries: Python dicts (and bidicts) keep insertion order; a registry *)
(* is a sequence of <<name, id>> pairs with distinct names.                *)
(***************************************************************************)
Keys(d) == {d[k][1] : k \in 1 .. Len(d)}
Values(d) == {d[k][2] : k \in 1 .. Len(d)}
Get(d, nm) == (CHOOSE k \in 1 .. Len(d) : d[k][1] = nm)
Lookup(d, nm) == d[Get(d, nm)][2]

\* d[nm] = v: an existing key keeps its place
SetItem(d, nm, v) ==
    IF nm \in Keys(d)
    THEN [k \in 1 .. Len(d) |-> IF d[k][1] = nm THEN <<nm, v>> ELSE d[k]]
    ELSE Append(d, <<nm, v>>)

\* del d[nm]
DelItem(d, nm) == SelectSeq(d, LAMBDA e : e[1] # nm)

(***************************************************************************)
(* _pyside_config.py: the functions the `config` decorator installs.       *)
(***************************************************************************)
\* a variant that names the group after the class (as get_setting_path of
\* base.py does)
_get_setting_path_by_class_name(c, f) == <<__name__(c), f>>

\* f"{inst_or_cls.__group_prefix__}/{attr.name}"
_get_setting_path(c, f) == <<__group_prefix__(c), f>>

\* a variant that stores the value under the field's name alone, outside
\* the group of the class
_update_qsettings_without_group(qs, c, f, v) == sync(setValue(qs, <<"", f>>, v))

\* the on_setattr hook: the new store (the value itself is returned and
\* becomes the field's value)
_update_qsettings(qs, c, f, v) == sync(setValue(qs, _get_setting_path(c, f), v))

_get_field_default(c, f) ==
    IF default(c, f) = Factory THEN factory(default(c, f)) ELSE default(c, f)

\* a variant that never reads the store
_from_qsettings_defaults_only(qs, c) ==
    [f \in FieldNames(c) |-> _get_field_default(c, f)]

\* the init_values of _from_qsettings
_from_qsettings(qs, c) ==
    [f \in FieldNames(c) |->
        IF qtype(c, f) # "None"
        THEN ToQType(qtype(c, f),
                     value(qs, _get_setting_path(c, f), _get_field_default(c, f)))
        ELSE value(qs, _get_setting_path(c, f), _get_field_default(c, f))]

\* a variant that writes the first field only
_to_qsettings_loop_first_field(qs, c, vals, fs) ==
    IF fs = <<>> THEN qs
    ELSE setValue(qs, _get_setting_path(c, Head(fs)), vals[Head(fs)])

RECURSIVE _to_qsettings_loop(_, _, _, _)
_to_qsettings_loop(qs, c, vals, fs) ==
    IF fs = <<>> THEN qs
    ELSE _to_qsettings_loop(
             setValue(qs, _get_setting_path(c, Head(fs)), vals[Head(fs)]),
             c, vals, Tail(fs))

\* a variant that empties the store before it writes
_to_qsettings_clearing(qs, c, vals) ==
    sync(_to_qsettings_loop(clear(qs), c, vals, _get_fields(c)))

_to_qsettings(qs, c, vals) == sync(_to_qsettings_loop(qs, c, vals, _get_fields(c)))

\* setattr(self, field.name, default): the hook runs, the field is set.
\* The result is the pair of the new store and the new field values.
_reset_field(r, c, f) ==
    [qs   |-> _update_qsettings(r.qs, c, f, _get_field_default(c, f)),
     vals |-> [r.vals EXCEPT ![f] = _get_field_default(c, f)]]

RECURSIVE _restore_defaults_loop(_, _, _)
_restore_defaults_loop(r, c, fs) ==
    IF fs = <<>> THEN r
    ELSE _restore_defaults_loop(_reset_field(r, c, Head(fs)), c, Tail(fs))

_restore_defaults(qs, c, vals) ==
    _restore_defaults_loop([qs |-> qs, vals |-> vals], c, _get_fields(c))

(***************************************************************************)
(* base.py (and, with the same code, _base.py): ConfigBase and the         *)
(* on_setattr hook update_qsettings.                                       *)
(***************************************************************************)
\* f"{class_name}/{attr.name}"
get_setting_path(c, f) == <<__name__(c), f>>

\* the on_setattr hook: a QColor is stored as its name
update_qsettings(qs, c, f, v) ==
    sync(setValue(qs, get_setting_path(c, f), IF isQColor(v) THEN name(v) ELSE v))

\* the init_values of ConfigBase.from_qsettings
from_qsettings(qs, c) ==
    [f \in FieldNames(c) |->
        LET v == value(qs, get_setting_path(c, f), default(c, f))
        IN IF v = Factory THEN factory(v) ELSE v]

RECURSIVE to_qsettings_loop(_, _, _, _)
to_qsettings_loop(qs, c, vals, fs) ==
    IF fs = <<>> THEN qs
    ELSE to_qsettings_loop(
             setValue(qs, get_setting_path(c, Head(fs)), vals[Head(fs)]),
             c, vals, Tail(fs))

\* ConfigBase.to_qsettings
to_qsettings(qs, c, vals) == sync(to_qsettings_loop(qs, c, vals, _get_fields(c)))

\* ConfigBase.restore_defaults: setattr(self, field.name, field.default) for
\* every field (the hook runs), then to_qsettings
RECURSIVE restore_defaults_loop(_, _, _)
restore_defaults_loop(r, c, fs) ==
    IF fs = <<>> THEN r
    ELSE restore_defaults_loop(
             [qs   |-> update_qsettings(r.qs, c, Head(fs), default(c, Head(fs))),
              vals |-> [r.vals EXCEPT ![Head(fs)] = default(c, Head(fs))]],
             c, Tail(fs))

restore_defaults(qs, c, vals) ==
    LET r == restore_defaults_loop([qs |-> qs, vals |-> vals], c, _get_fields(c))
    IN [qs |-> to_qsettings(r.qs, c, r.vals), vals |-> r.vals]

(***************************************************************************)
(* The methods of an instance, by the api its class was defined with.      *)
(* config_define of config.py installs the functions the `config`          *)
(* decorator installs, with the class name in place of the group prefix in *)
(* _get_setting_path; its classes K and L have no group_name, so that the  *)
(* two paths are the same.                                                 *)
(***************************************************************************)
Decorated == {"_pyside_config", "config"}

PathOf(a, c, f) ==
    IF a \in Decorated THEN _get_setting_path(c, f) ELSE get_setting_path(c, f)

OnSetattr(a, qs, c, f, v) ==
    IF a \in Decorated THEN _update_qsettings(qs, c, f, v)
    ELSE update_qsettings(qs, c, f, v)

ClsFromQSettings(a, qs, c) ==
    IF a \in Decorated THEN _from_qsettings(qs, c) ELSE from_qsettings(qs, c)

InstToQSettings(a, qs, c, vals) ==
    IF a \in Decorated THEN _to_qsettings(qs, c, vals) ELSE to_qsettings(qs, c, vals)

InstRestoreDefaults(a, qs, c, vals) ==
    IF a \in Decorated THEN _restore_defaults(qs, c, vals)
    ELSE restore_defaults(qs, c, vals)

(***************************************************************************)
(* Helpers of the model.                                                   *)
(***************************************************************************)
Ids == 1 .. MaxInst
NewId == Cardinality(DOMAIN inst) + 1
CanAllocate == Cardinality(DOMAIN inst) < MaxInst

Put(m, k, v) == [x \in DOMAIN m \cup {k} |-> IF x = k THEN v ELSE m[x]]

\* no snapshot was taken yet; a snapshot is the registry it was taken of and,
\* in the registry's order, the pairs <<name, attrs.asdict(inst)>>
NoSnapshot == [taken |-> FALSE, reg |-> <<>>, data |-> <<>>]

\* the threads that call the ConfigManagerBase, and a thread that is in no
\* call (err: the exception its last call raised, "" for none).  A thread in
\* a call keeps the call's name, its arguments (batch, name) and the registry
\* as it was when the call began (before).
Threads == 1 .. MaxThreads
Idle(err) ==
    [pc |-> "idle", call |-> "", batch |-> <<>>, before |-> <<>>,
     items |-> <<>>, undo |-> <<>>, name |-> "", err |-> err]

\* the record of an operation: its name, the instance it made or acted on,
\* its arguments and the error it raised ("" for none); `after` names the
\* operation it directly followed when the two make a round trip
Op(op, id, nm, key, val, flag, err) ==
    [op |-> op, id |-> id, name |-> nm, key |-> key, value |-> val,
     flag |-> flag, err |-> err, names |-> {}, after |-> ""]

OpNames(op, names) ==
    [op |-> op, id |-> 0, name |-> "", key |-> "", value |-> "",
     flag |-> FALSE, err |-> "", names |-> names, after |-> ""]

\* the store after to_qsettings of the instances ids, in that order
RECURSIVE SaveAll(_, _, _, _)
SaveAll(a, qs, insts, ids) ==
    IF ids = <<>> THEN qs
    ELSE SaveAll(a,
                 InstToQSettings(a, qs, insts[Head(ids)].cls, insts[Head(ids)].vals),
                 insts, Tail(ids))

\* the store and the instances after restore_defaults of the instances ids
RECURSIVE RestoreAll(_, _, _)
RestoreAll(a, r, ids) ==
    IF ids = <<>> THEN r
    ELSE LET i == Head(ids)
             d == InstRestoreDefaults(a, r.qs, r.inst[i].cls, r.inst[i].vals)
         IN RestoreAll(a,
                       [qs |-> d.qs, inst |-> [r.inst EXCEPT ![i].vals = d.vals]],
                       Tail(ids))

\* the ids a registry holds under the given names, in the registry's order
IdsOf(d, names) ==
    LET sel == SelectSeq(d, LAMBDA e : e[1] \in names)
    IN [k \in 1 .. Len(sel) |-> sel[k][2]]

(***************************************************************************)
(* Operations on an instance.                                              *)
(***************************************************************************)
\* cls.from_qsettings()
FromQSettings(c) ==
    /\ CanAllocate
    /\ inst' = Put(inst, NewId, [cls |-> c, vals |-> ClsFromQSettings(api, qsettings, c)])
    /\ last' = [Op("from_qsettings", NewId, "", "", "", FALSE, "") EXCEPT
                    !.after = IF last.op = "to_qsettings" /\ inst[last.id].cls = c
                              THEN "to_qsettings" ELSE ""]
    /\ UNCHANGED <<snapshot, api, qsettings, _config_registry, _registry,
                   config_registry, editors, manager>>

\* inst.f = v: the attrs on_setattr hook runs, then the field is set
SetAttr(i, f, v) ==
    /\ i \in DOMAIN inst
    /\ f \in FieldNames(inst[i].cls)
    /\ qsettings' = OnSetattr(api, qsettings, inst[i].cls, f, v)
    /\ inst' = [inst EXCEPT ![i].vals[f] = v]
    /\ last' = Op("setattr", i, "", f, v, FALSE, "")
    /\ UNCHANGED <<snapshot, api, _config_registry, _registry, config_registry, editors, manager>>

\* inst.to_qsettings()
ToQSettings(i) ==
    /\ i \in DOMAIN inst
    /\ qsettings' = InstToQSettings(api, qsettings, inst[i].cls, inst[i].vals)
    /\ last' = [Op("to_qsettings", i, "", "", "", FALSE, "") EXCEPT
                    !.after = IF last.op = "from_qsettings" /\ last.id = i
                              THEN "from_qsettings" ELSE ""]
    /\ UNCHANGED <<snapshot, api, inst, _config_registry, _registry, config_registry,
                   editors, manager>>

\* inst.restore_defaults()
RestoreDefaults(i) ==
    /\ i \in DOMAIN inst
    /\ LET r == InstRestoreDefaults(api, qsettings, inst[i].cls, inst[i].vals)
       IN /\ qsettings' = r.qs
          /\ inst' = [inst EXCEPT ![i].vals = r.vals]
    /\ last' = Op("restore_defaults", i, "", "", "", FALSE, "")
    /\ UNCHANGED <<snapshot, api, _config_registry, _registry, config_registry, editors, manager>>

(***************************************************************************)
(* Operations of the "_pyside_config" api.                                 *)
(***************************************************************************)
GroupNames == {"A", "Bg"}
NoGroup == "Z"          \* a name nothing is registered under
NoKey == "nokey"        \* a name that is no attribute of any class

\* a variant that saves the new instance before it looks at the registry (as
\* ConfigRegistry.register does)
_register_saving_first(c, overwrite) ==
    /\ LET nm == __group_prefix__(c)
           vals == _from_qsettings(qsettings, c)
       IN /\ qsettings' = _to_qsettings(qsettings, c, vals)
          /\ IF overwrite \/ nm \notin Keys(_config_registry)
             THEN /\ CanAllocate
                  /\ inst' = Put(inst, NewId, [cls |-> c, vals |-> vals])
                  /\ _config_registry' = SetItem(_config_registry, nm, NewId)
                  /\ last' = Op("_register", NewId, nm, "", "", overwrite, "")
             ELSE /\ last' = Op("_register", 0, nm, "", "", overwrite, "ValueError")
                  /\ UNCHANGED <<inst, _config_registry>>
    /\ UNCHANGED <<snapshot, api, _registry, config_registry, editors, manager>>

\* _register(config_class, overwrite); the decorator calls it with
\* overwrite=False
_register(c, overwrite) ==
    /\ LET nm == __group_prefix__(c)
           vals == _from_qsettings(qsettings, c)
       IN IF overwrite \/ nm \notin Keys(_config_registry)
          THEN /\ CanAllocate
               /\ inst' = Put(inst, NewId, [cls |-> c, vals |-> vals])
               /\ _config_registry' = SetItem(_config_registry, nm, NewId)
               /\ qsettings' = _to_qsettings(qsettings, c, vals)
               /\ last' = Op("_register", NewId, nm, "", "", overwrite, "")
          ELSE /\ last' = Op("_register", 0, nm, "", "", overwrite, "ValueError")
               /\ UNCHANGED <<inst, _config_registry, qsettings>>
    /\ UNCHANGED <<snapshot, api, _registry, config_registry, editors, manager>>

\* save()
save ==
    /\ qsettings' = SaveAll("_pyside_config", qsettings, inst,
                            IdsOf(_config_registry, Keys(_config_registry)))
    /\ last' = Op("save", 0, "", "", "", FALSE, "")
    /\ UNCHANGED <<snapshot, api, inst, _config_registry, _registry, config_registry,
                   editors, manager>>

\* a variant that resets every registered config, excluded or not
reset_ignoring_exclude(exclude) ==
    /\ LET r == RestoreAll("_pyside_config", [qs |-> qsettings, inst |-> inst],
                           IdsOf(_config_registry, Keys(_config_registry)))
       IN /\ qsettings' = r.qs
          /\ inst' = r.inst
    /\ last' = OpNames("reset", exclude)
    /\ UNCHANGED <<snapshot, api, _config_registry, _registry, config_registry, editors, manager>>

\* reset(exclude)
reset(exclude) ==
    /\ LET names == IF exclude = {} THEN Keys(_config_registry)
                    ELSE Keys(_config_registry) \ exclude
           r == RestoreAll("_pyside_config", [qs |-> qsettings, inst |-> inst],
                           IdsOf(_config_registry, names))
       IN /\ qsettings' = r.qs
          /\ inst' = r.inst
    /\ last' = OpNames("reset", exclude)
    /\ UNCHANGED <<snapshot, api, _config_registry, _registry, config_registry, editors, manager>>

\* a variant that removes the excluded groups and keeps the others
RECURSIVE clean_loop_removing_excluded(_, _, _)
clean_loop_removing_excluded(qs, groups, exclude) ==
    IF groups = {} THEN qs
    ELSE LET g == CHOOSE x \in groups : TRUE
         IN clean_loop_removing_excluded(IF g \in exclude THEN remove(qs, g) ELSE qs,
                                         groups \ {g}, exclude)

\* the removals of clean(exclude), for the child groups still to visit
RECURSIVE clean_loop(_, _, _)
clean_loop(qs, groups, exclude) ==
    IF groups = {} THEN qs
    ELSE LET g == CHOOSE x \in groups : TRUE
         IN clean_loop(IF g \notin exclude THEN remove(qs, g) ELSE qs,
                       groups \ {g}, exclude)

\* clean(exclude)
clean(exclude) ==
    /\ qsettings' = sync(IF exclude = {} THEN clear(qsettings)
                         ELSE clean_loop(qsettings, childGroups(qsettings), exclude))
    /\ last' = OpNames("clean", exclude)
    /\ UNCHANGED <<snapshot, api, inst, _config_registry, _registry, config_registry,
                   editors, manager>>

\* a variant that falls back to the first registered config
get_config_or_first(nm) ==
    IF nm \in Keys(_config_registry) THEN Lookup(_config_registry, nm)
    ELSE IF _config_registry # <<>> THEN _config_registry[1][2] ELSE 0

\* get_config(name): the instance, or 0 where the code raises KeyError
get_config(nm) ==
    IF nm \in Keys(_config_registry) THEN Lookup(_config_registry, nm) ELSE 0

\* update_value(group, key, value)
update_value(group, key, v) ==
    /\ LET i == get_config(group)
       IN IF i = 0
          THEN /\ last' = Op("update_value", 0, group, key, v, FALSE, "ValueError")
               /\ UNCHANGED <<inst, qsettings>>
          ELSE IF ~hasattr(inst[i].cls, key)
          THEN /\ last' = Op("update_value", i, group, key, v, FALSE, "ValueError")
               /\ UNCHANGED <<inst, qsettings>>
          ELSE IF key \notin FieldNames(inst[i].cls)
          THEN \* a method of a slotted class: object.__setattr__ refuses
               /\ last' = Op("update_value", i, group, key, v, FALSE, "AttributeError")
               /\ UNCHANGED <<inst, qsettings>>
          ELSE /\ inst' = [inst EXCEPT ![i].vals[key] = v]
               /\ qsettings' = _to_qsettings(
                                   _update_qsettings(qsettings, inst[i].cls, key, v),
                                   inst[i].cls, inst'[i].vals)
               /\ last' = Op("update_value", i, group, key, v, FALSE, "")
    /\ UNCHANGED <<snapshot, api, _config_registry, _registry, config_registry, editors, manager>>

(***************************************************************************)
(* Spec: an application that uses the _pyside_config module.               *)
(***************************************************************************)
InitState(a) ==
    /\ api = a
    /\ qsettings = EmptyStore
    /\ inst = <<>>
    /\ _config_registry = <<>>
    /\ _registry = <<>>
    /\ config_registry = <<>>
    /\ editors = <<>>
    /\ snapshot = NoSnapshot
    /\ _configs = [fwdm |-> <<>>, invm |-> <<>>]
    /\ _mutex = 0
    /\ threads = [t \in Threads |-> Idle("")]
    /\ last = Op("init", 0, "", "", "", FALSE, "")

Init == InitState("_pyside_config")

Next ==
    \/ \E c \in ClassesOf(api) : FromQSettings(c)
    \/ \E i \in Ids, f \in {"x", "y"}, v \in Assignable(api) : SetAttr(i, f, v)
    \/ \E c \in ClassesOf(api), o \in BOOLEAN : _register(c, o)
    \/ save
    \/ \E e \in SUBSET GroupNames : reset(e)
    \/ \E e \in SUBSET GroupNames : clean(e)
    \/ \E g \in GroupNames \cup {NoGroup}, k \in {"x", "y", NoKey, "to_qsettings"},
          v \in Assignable(api) : update_value(g, k, v)

Spec == Init /\ [][Next]_vars

(***************************************************************************)
(* SpecPersist: instances and the store only, for a class of either the    *)
(* _pyside_config api or of base.py.                                       *)
(***************************************************************************)
InitPersist == \E a \in {"_pyside_config", "registry"} : InitState(a)

NextPersist ==
    \/ \E c \in ClassesOf(api) : FromQSettings(c)
    \/ \E i \in Ids, f \in {"x", "y"}, v \in Assignable(api) : SetAttr(i, f, v)
    \/ \E i \in Ids : ToQSettings(i)
    \/ \E i \in Ids : RestoreDefaults(i)

SpecPersist == InitPersist /\ [][NextPersist]_vars

(***************************************************************************)
(* SpecLegacy: an application that uses one of the older registries with   *)
(* subclasses of ConfigBase:                                               *)
(*   api "registry"        registry.py ConfigRegistry                      *)
(*   api "config_manager"  config_manager.py ConfigManager (the same code) *)
(*   api "config"          the functions of config.py                      *)
(***************************************************************************)
RegistrationNames == {"", "alias"}     \* the name argument; "" is None

\* ConfigRegistry.register(config_class, name) and, with the same code,
\* ConfigManager.register(config_class, name)
register(c, nm) ==
    /\ api \in {"registry", "config_manager"}
    /\ CanAllocate
    /\ LET vals == from_qsettings(qsettings, c)
           key == IF nm # "" THEN nm ELSE __name__(c)
       IN /\ inst' = Put(inst, NewId, [cls |-> c, vals |-> vals])
          /\ qsettings' = to_qsettings(qsettings, c, vals)
          /\ _registry' = SetItem(_registry, key, NewId)
          /\ last' = Op("register", NewId, key, "", "", FALSE, "")
    /\ UNCHANGED <<snapshot, api, _config_registry, config_registry, editors, manager>>

\* config.register(config_class, name, overwrite)
config_register(c, nm, overwrite) ==
    /\ api = "config"
    /\ LET key == IF nm # "" THEN nm ELSE __name__(c)
           vals == _from_qsettings(qsettings, c)
       IN IF (key \in Keys(config_registry) /\ overwrite)
             \/ key \notin Keys(config_registry)
          THEN /\ CanAllocate
               /\ inst' = Put(inst, NewId, [cls |-> c, vals |-> vals])
               /\ config_registry' = SetItem(config_registry, key, NewId)
               /\ last' = Op("register", NewId, key, "", "", overwrite, "")
          ELSE /\ last' = Op("register", 0, key, "", "", overwrite, "logged")
               /\ UNCHANGED <<inst, config_registry>>
    /\ UNCHANGED <<snapshot, api, qsettings, _config_registry, _registry, editors, manager>>

\* the registry the api keeps
Registry == IF api = "_pyside_config" THEN _config_registry
            ELSE IF api = "config" THEN config_registry ELSE _registry

\* ConfigRegistry.save, ConfigManager.save, config.save
legacy_save ==
    /\ api \in {"registry", "config_manager", "config"}
    /\ qsettings' = SaveAll(api, qsettings, inst, IdsOf(Registry, Keys(Registry)))
    /\ last' = Op("save", 0, "", "", "", FALSE, "")
    /\ UNCHANGED <<snapshot, api, inst, _config_registry, _registry, config_registry,
                   editors, manager>>

\* the removals of clean(include): a name that is not registered is skipped
RECURSIVE legacy_clean_loop(_, _, _)
legacy_clean_loop(qs, include, registered) ==
    IF include = {} THEN qs
    ELSE LET nm == CHOOSE x \in include : TRUE
         IN legacy_clean_loop(
                IF nm \in registered /\ nm \in childGroups(qs) THEN remove(qs, nm)
                ELSE qs,
                include \ {nm}, registered)

\* ConfigRegistry.clean, ConfigManager.clean, config.clean (include)
legacy_clean(include) ==
    /\ api \in {"registry", "config_manager", "config"}
    /\ qsettings' = sync(IF include = {} THEN clear(qsettings)
                         ELSE legacy_clean_loop(qsettings, include, Keys(Registry)))
    /\ last' = OpNames("clean", include)
    /\ UNCHANGED <<snapshot, api, inst, _config_registry, _registry, config_registry,
                   editors, manager>>

\* config.update_name(old_name, new_name):
\* config_registry[new_name] = config_registry.pop(old_name)
update_name(old_name, new_name) ==
    /\ api = "config"
    /\ IF old_name \notin Keys(config_registry)
       THEN /\ last' = Op("update_name", 0, old_name, new_name, "", FALSE, "logged")
            /\ UNCHANGED config_registry
       ELSE /\ config_registry' = SetItem(DelItem(config_registry, old_name), new_name,
                                          Lookup(config_registry, old_name))
            /\ last' = Op("update_name", Lookup(config_registry, old_name),
                          old_name, new_name, "", FALSE, "")
    /\ UNCHANGED <<snapshot, api, qsettings, inst, _config_registry, _registry,
                   editors, manager>>

InitLegacy == \E a \in {"registry", "config_manager", "config"} : InitState(a)

NextLegacy ==
    \/ \E i \in Ids, f \in {"x", "y"}, v \in Assignable(api) : SetAttr(i, f, v)
    \/ \E c \in ClassesOf(api), nm \in RegistrationNames : register(c, nm)
    \/ \E c \in ClassesOf(api), nm \in RegistrationNames, o \in BOOLEAN :
          config_register(c, nm, o)
    \/ legacy_save
    \/ \E n \in SUBSET {"K", "alias"} : legacy_clean(n)
    \/ \E o, n \in {"K", "alias"} : update_name(o, n)

SpecLegacy == InitLegacy /\ [][NextLegacy]_vars

(***************************************************************************)
(* SpecSnapshot: create_snapshot and restore_snapshot, with the operations *)
(* that change registered configs in between, for the _pyside_config       *)
(* module and for ConfigManager.                                           *)
(***************************************************************************)
\* {key: attrs.asdict(inst) for key, inst in registry.items()}
create_snapshot ==
    /\ snapshot' = [taken |-> TRUE, reg |-> Registry,
                    data |-> [k \in 1 .. Len(Registry) |->
                                 <<Registry[k][1], inst[Registry[k][2]].vals>>]]
    /\ last' = Op("create_snapshot", 0, "", "", "", FALSE, "")
    /\ UNCHANGED <<api, qsettings, inst, _config_registry, _registry,
                   config_registry, editors, manager>>

\* update_value of _pyside_config.py on the pair r of store and instances;
\* err is set where the code raises
UpdateValue(r, group, key, v) ==
    LET i == get_config(group)
    IN IF r.err # "" THEN r
       ELSE IF i = 0 \/ ~hasattr(r.inst[i].cls, key) THEN [r EXCEPT !.err = "ValueError"]
       ELSE IF key \notin FieldNames(r.inst[i].cls) THEN [r EXCEPT !.err = "AttributeError"]
       ELSE LET vals == [r.inst[i].vals EXCEPT ![key] = v]
            IN [qs   |-> _to_qsettings(_update_qsettings(r.qs, r.inst[i].cls, key, v),
                                       r.inst[i].cls, vals),
                inst |-> [r.inst EXCEPT ![i].vals = vals],
                err  |-> ""]

\* ConfigManager.update_value (and update_value of config.py): an error is
\* logged, not raised, and save() runs after an unknown key too
LegacyUpdateValue(r, group, key, v) ==
    IF group \notin Keys(Registry) THEN r
    ELSE LET i == Lookup(Registry, group)
             c == r.inst[i].cls
             set == key \in FieldNames(c)
             insts == IF set THEN [r.inst EXCEPT ![i].vals[key] = v] ELSE r.inst
             qs == IF set THEN OnSetattr(api, r.qs, c, key, v) ELSE r.qs
         IN [qs   |-> SaveAll(api, qs, insts, IdsOf(Registry, Keys(Registry))),
             inst |-> insts,
             err  |-> ""]

\* for key, value in grp_dict.items(): update_value(grp, key, value)
RECURSIVE RestoreGroup(_, _, _, _)
RestoreGroup(r, grp, grp_dict, fs) ==
    IF fs = <<>> THEN r
    ELSE RestoreGroup(IF api = "_pyside_config"
                      THEN UpdateValue(r, grp, Head(fs), grp_dict[Head(fs)])
                      ELSE LegacyUpdateValue(r, grp, Head(fs), grp_dict[Head(fs)]),
                      grp, grp_dict, Tail(fs))

\* the keys of attrs.asdict(inst), in the order the fields are declared
DictKeys(grp_dict) == SelectSeq(<<"x", "y">>, LAMBDA f : f \in DOMAIN grp_dict)

\* for grp, grp_dict in snapshot.items(): ...
RECURSIVE RestoreGroups(_, _)
RestoreGroups(r, data) ==
    IF data = <<>> THEN r
    ELSE RestoreGroups(RestoreGroup(r, Head(data)[1], Head(data)[2],
                                    DictKeys(Head(data)[2])),
                       Tail(data))

\* restore_snapshot(snapshot), with the dict create_snapshot returned last
restore_snapshot ==
    /\ snapshot.taken
    /\ LET r == RestoreGroups([qs |-> qsettings, inst |-> inst, err |-> ""],
                              snapshot.data)
       IN /\ qsettings' = r.qs
          /\ inst' = r.inst
          /\ last' = Op("restore_snapshot", 0, "", "", "", FALSE, r.err)
    /\ UNCHANGED <<snapshot, api, _config_registry, _registry, config_registry,
                   editors, manager>>

\* ConfigManager.update_value(group, key, value)
legacy_update_value(group, key, v) ==
    /\ api = "config_manager"
    /\ LET r == LegacyUpdateValue([qs |-> qsettings, inst |-> inst, err |-> ""],
                                  group, key, v)
       IN /\ qsettings' = r.qs
          /\ inst' = r.inst
    /\ last' = Op("update_value", 0, group, key, v, FALSE,
                  IF group \in Keys(Registry)
                     /\ key \in FieldNames(inst[Lookup(Registry, group)].cls)
                  THEN "" ELSE "logged")
    /\ UNCHANGED <<snapshot, api, _config_registry, _registry, config_registry,
                   editors, manager>>

InitSnapshot == \E a \in {"_pyside_config", "config_manager"} : InitState(a)

NextSnapshot ==
    \/ /\ api = "_pyside_config"
       /\ \/ \E c \in ClassesOf(api) : _register(c, FALSE)
          \/ \E g \in GroupNames, v \in Assignable(api) : update_value(g, "x", v)
          \/ \E e \in {{}, {"Bg"}} : reset(e)
    \/ \E c \in ClassesOf(api), nm \in RegistrationNames : register(c, nm)
    \/ \E g \in {"K", "alias"}, v \in Assignable(api) : legacy_update_value(g, "x", v)
    \/ \E i \in Ids, f \in {"x", "y"}, v \in Assignable(api) : SetAttr(i, f, v)
    \/ create_snapshot
    \/ restore_snapshot

SpecSnapshot == InitSnapshot /\ [][NextSnapshot]_vars

(***************************************************************************)
(* SpecEditor: create_editor and the widgets it builds, for the `config`   *)
(* decorator and for ConfigBase of base.py.  A widget is the field it      *)
(* edits and the value it shows; it takes any value its setter is given.   *)
(***************************************************************************)
\* a variant that builds a widget for every field
_create_editor_for_all_fields(c, vals) ==
    [k \in 1 .. Len(_get_fields(c)) |->
        [field |-> _get_fields(c)[k], value |-> vals[_get_fields(c)[k]]]]

\* the widgets of _create_editor (and of ConfigBase.create_editor, the same
\* loop): one for every field with "editor" metadata, in declaration order,
\* its setter called with getattr(self, field.name)
_create_editor(c, vals) ==
    LET fs == SelectSeq(_get_fields(c), LAMBDA f : editor_info(c, f))
    IN [k \in 1 .. Len(fs) |-> [field |-> fs[k], value |-> vals[fs[k]]]]

\* inst.create_editor()
CreateEditor(i) ==
    /\ api \in {"_pyside_config", "registry"}
    /\ i \in DOMAIN inst
    /\ Len(editors) < MaxEditors
    /\ editors' = Append(editors,
                         [owner |-> i,
                          widgets |-> _create_editor(inst[i].cls, inst[i].vals)])
    /\ last' = Op("create_editor", i, "", "", "", FALSE, "")
    /\ UNCHANGED <<snapshot, api, qsettings, inst, _config_registry, _registry,
                   config_registry, manager>>

\* the widget w of editor e emits its change signal with v: the connected
\* lambda val, f=field: setattr(self, f.name, val) runs
ValueChanged(e, w, v) ==
    /\ e \in 1 .. Len(editors)
    /\ w \in 1 .. Len(editors[e].widgets)
    /\ LET i == editors[e].owner
           f == editors[e].widgets[w].field
       IN /\ editors' = [editors EXCEPT ![e].widgets[w].value = v]
          /\ qsettings' = OnSetattr(api, qsettings, inst[i].cls, f, v)
          /\ inst' = [inst EXCEPT ![i].vals[f] = v]
          /\ last' = Op("value_changed", i, "", f, v, FALSE, "")
    /\ UNCHANGED <<snapshot, api, _config_registry, _registry, config_registry, manager>>

\* the reset button of the card of widget w is clicked (the `config`
\* decorator only): lambda f=field: _reset_field(self, f) runs.  The card is
\* not code of the package: the widget keeps its value or shows the default.
ResetClicked(e, w) ==
    /\ api = "_pyside_config"
    /\ e \in 1 .. Len(editors)
    /\ w \in 1 .. Len(editors[e].widgets)
    /\ LET i == editors[e].owner
           f == editors[e].widgets[w].field
           r == _reset_field([qs |-> qsettings, vals |-> inst[i].vals],
                             inst[i].cls, f)
       IN /\ \E shown \in {editors[e].widgets[w].value, r.vals[f]} :
                editors' = [editors EXCEPT ![e].widgets[w].value = shown]
          /\ qsettings' = r.qs
          /\ inst' = [inst EXCEPT ![i].vals = r.vals]
          /\ last' = Op("reset_clicked", i, "", f, "", FALSE, "")
    /\ UNCHANGED <<snapshot, api, _config_registry, _registry, config_registry, manager>>

InitEditor == \E a \in {"_pyside_config", "registry"} : InitState(a)

NextEditor ==
    \/ \E c \in ClassesOf(api) : FromQSettings(c)
    \/ \E i \in Ids, f \in {"x", "y"}, v \in Assignable(api) : SetAttr(i, f, v)
    \/ \E i \in Ids : CreateEditor(i)
    \/ \E e \in 1 .. MaxEditors, w \in 1 .. 2, v \in Assignable(api) \cup {"i1"} :
          ValueChanged(e, w, v)
    \/ \E e \in 1 .. MaxEditors, w \in 1 .. 2 : ResetClicked(e, w)

SpecEditor == InitEditor /\ [][NextEditor]_vars

(***************************************************************************)
(* SpecManager: _config_manager.py, a ConfigManagerBase that threads call. *)
(* _configs is a bidict from group prefix to config class: a forward dict  *)
(* fwdm and its inverse invm.  A call is a sequence of steps, and another  *)
(* thread can run between two steps:                                       *)
(*   put / putall   for every item: "check" (the duplication check of      *)
(*                  ON_DUP_RAISE), then "write" (fwdm and invm are set);   *)
(*                  a duplication undoes the items written by the call     *)
(*   del            "pop" (the key leaves fwdm), then "del_inv"            *)
(* No method of ConfigManagerBase locks _mutex.                            *)
(***************************************************************************)
ManagerClasses == {"A", "A2", "B"}
ConfigLists == {<<"A", "B">>, <<"B", "A2">>, <<"A", "A2">>}

\* a dict without the key k, and with k set to v
Without(d, k) == [x \in DOMAIN d \ {k} |-> d[x]]
With(d, k, v) == [x \in DOMAIN d \cup {k} |-> IF x = k THEN v ELSE d[x]]

\* [(config.__group_prefix__, config) for config in configs]
Items(cs) == [k \in 1 .. Len(cs) |-> <<__group_prefix__(cs[k]), cs[k]>>]

\* register_config(config): self._configs.put(prefix, config, on_dup)
register_config(t, c) ==
    /\ threads[t].pc = "idle"
    /\ threads' = [threads EXCEPT ![t] =
                      [pc |-> "check", call |-> "register_config", batch |-> Items(<<c>>),
                       before |-> _configs, items |-> Items(<<c>>), undo |-> <<>>,
                       name |-> "", err |-> ""]]
    /\ UNCHANGED <<snapshot, api, qsettings, inst, _config_registry, _registry,
                   config_registry, editors, _configs, _mutex, last>>

\* register_configs(configs): self._configs.putall(items, on_dup)
register_configs(t, cs) ==
    /\ threads[t].pc = "idle"
    /\ threads' = [threads EXCEPT ![t] =
                      [pc |-> "check", call |-> "register_configs", batch |-> Items(cs),
                       before |-> _configs, items |-> Items(cs), undo |-> <<>>,
                       name |-> "", err |-> ""]]
    /\ UNCHANGED <<snapshot, api, qsettings, inst, _config_registry, _registry,
                   config_registry, editors, _configs, _mutex, last>>

\* unregister_config(name): del self._configs[name]
unregister_config(t, nm) ==
    /\ threads[t].pc = "idle"
    /\ threads' = [threads EXCEPT ![t] =
                      [pc |-> "pop", call |-> "unregister_config", batch |-> <<>>,
                       before |-> _configs, items |-> <<>>, undo |-> <<>>,
                       name |-> nm, err |-> ""]]
    /\ UNCHANGED <<snapshot, api, qsettings, inst, _config_registry, _registry,
                   config_registry, editors, _configs, _mutex, last>>

\* the items the call has written are taken back, last one first
RECURSIVE Rollback(_, _)
Rollback(b, undo) ==
    IF undo = <<>> THEN b
    ELSE LET it == undo[Len(undo)]
         IN Rollback([fwdm |-> Without(b.fwdm, it[1]), invm |-> Without(b.invm, it[2])],
                     SubSeq(undo, 1, Len(undo) - 1))

\* the duplication check for the next item of a put or putall
PutCheck(t) ==
    /\ threads[t].pc = "check"
    /\ LET th == threads[t]
       IN IF th.items = <<>>
          THEN /\ threads' = [threads EXCEPT ![t] = Idle("")]
               /\ UNCHANGED _configs
          ELSE LET k == Head(th.items)[1]
                   v == Head(th.items)[2]
                   isdupkey == k \in DOMAIN _configs.fwdm
                   isdupval == v \in DOMAIN _configs.invm
               IN IF isdupkey /\ isdupval /\ _configs.fwdm[k] = v
                  THEN \* the item is already there: nothing to write
                       /\ threads' = [threads EXCEPT ![t].items = Tail(th.items)]
                       /\ UNCHANGED _configs
                  ELSE IF isdupkey \/ isdupval
                  THEN /\ _configs' = Rollback(_configs, th.undo)
                       /\ threads' = [threads EXCEPT ![t] = Idle("DuplicationError")]
                  ELSE /\ threads' = [threads EXCEPT ![t].pc = "write"]
                       /\ UNCHANGED _configs
    /\ UNCHANGED <<snapshot, api, qsettings, inst, _config_registry, _registry,
                   config_registry, editors, _mutex, last>>

\* the write of the item that was checked
PutWrite(t) ==
    /\ threads[t].pc = "write"
    /\ LET th == threads[t]
           k == Head(th.items)[1]
           v == Head(th.items)[2]
       IN /\ _configs' = [fwdm |-> With(_configs.fwdm, k, v),
                          invm |-> With(_configs.invm, v, k)]
          /\ threads' = [threads EXCEPT ![t] =
                            [th EXCEPT !.pc = "check", !.items = Tail(th.items),
                                       !.undo = Append(th.undo, <<k, v>>)]]
    /\ UNCHANGED <<snapshot, api, qsettings, inst, _config_registry, _registry,
                   config_registry, editors, _mutex, last>>

\* del: val = fwdm.pop(key), a KeyError when the key is missing
DelPop(t) ==
    /\ threads[t].pc = "pop"
    /\ LET nm == threads[t].name
       IN IF nm \in DOMAIN _configs.fwdm
          THEN /\ _configs' = [_configs EXCEPT !.fwdm = Without(_configs.fwdm, nm)]
               /\ threads' = [threads EXCEPT ![t].pc = "del_inv",
                                             ![t].name = _configs.fwdm[nm]]
          ELSE /\ threads' = [threads EXCEPT ![t] = Idle("KeyError")]
               /\ UNCHANGED _configs
    /\ UNCHANGED <<snapshot, api, qsettings, inst, _config_registry, _registry,
                   config_registry, editors, _mutex, last>>

\* del: del invm[val], a KeyError when another thread's write replaced it
DelInv(t) ==
    /\ threads[t].pc = "del_inv"
    /\ LET v == threads[t].name
       IN IF v \in DOMAIN _configs.invm
          THEN /\ _configs' = [_configs EXCEPT !.invm = Without(_configs.invm, v)]
               /\ threads' = [threads EXCEPT ![t] = Idle("")]
          ELSE /\ threads' = [threads EXCEPT ![t] = Idle("KeyError")]
               /\ UNCHANGED _configs
    /\ UNCHANGED <<snapshot, api, qsettings, inst, _config_registry, _registry,
                   config_registry, editors, _mutex, last>>

NextManager ==
    \/ \E t \in Threads, c \in ManagerClasses : register_config(t, c)
    \/ \E t \in Threads, cs \in ConfigLists : register_configs(t, cs)
    \/ \E t \in Threads, nm \in GroupNames : unregister_config(t, nm)
    \/ \E t \in Threads : PutCheck(t)
    \/ \E t \in Threads : PutWrite(t)
    \/ \E t \in Threads : DelPop(t)
    \/ \E t \in Threads : DelInv(t)

SpecManager == Init /\ [][NextManager]_vars

(***************************************************************************)
(* Properties of the _pyside_config api (checked under Spec).              *)
(***************************************************************************)
\* C1: right after an assignment inst.f = v to a field of a class decorated
\* with `config`, the store holds v under "G/f", G the group prefix of the
\* class, and the store has been synced.
C1_WriteThrough ==
    last.op = "setattr" =>
        LET p == <<__group_prefix__(inst[last.id].cls), last.key>>
        IN /\ p \in DOMAIN qsettings.data
           /\ qsettings.data[p] = last.value
           /\ inst[last.id].vals[last.key] = last.value
           /\ ~qsettings.dirty

\* an assignment to an instance that is not registered, of the class whose
\* group prefix differs from its name, after the store was emptied
C1_Witness ==
    /\ last.op = "setattr"
    /\ inst[last.id].cls = "B"
    /\ last.id \notin Values(_config_registry)
    /\ DOMAIN qsettings.data = {<<"Bg", "x">>}

C9_UpdateValue ==
    [][last'.op = "update_value" =>
        LET g == last'.name
            k == last'.key
        IN /\ (g \notin Keys(_config_registry)
                 \/ ~hasattr(inst[Lookup(_config_registry, g)].cls, k))
              => (/\ last'.err = "ValueError"
                  /\ inst' = inst
                  /\ qsettings' = qsettings)
           /\ last'.err = ""
              => (/\ g \in Keys(_config_registry)
                  /\ inst'[Lookup(_config_registry, g)].vals[k] = last'.value
                  /\ <<g, k>> \in DOMAIN qsettings'.data
                  /\ qsettings'.data[<<g, k>>] = last'.value)]_vars

\* update_value returned after it changed a field of the config registered
\* as "Bg", whose keys were missing from the store
C9_Witness ==
    /\ last.op = "update_value"
    /\ last.err = ""
    /\ last.name = "Bg"
    /\ "A" \notin childGroups(qsettings)
    /\ Len(_config_registry) = 2

\* update_value raised ValueError for a key that is no attribute
C9_WitnessError ==
    /\ last.op = "update_value"
    /\ last.err = "ValueError"
    /\ last.name \in Keys(_config_registry)

(***************************************************************************)
(* Properties of from_qsettings and to_qsettings (checked under            *)
(* SpecPersist, for the `config` decorator and for ConfigBase of base.py). *)
(***************************************************************************)
\* the declared default of a field, a Factory resolved by calling it
DeclaredDefault(c, f) ==
    IF default(c, f) = Factory THEN factory(default(c, f)) ELSE default(c, f)

\* what from_qsettings makes of a stored value v: with the decorator, v
\* converted to the field's __qtype when one is declared; with ConfigBase, the
\* result of the factory when v is a Factory object
Converted(a, c, f, v) ==
    IF a = "_pyside_config"
    THEN (IF qtype(c, f) = "int"
          THEN (IF v \in IntValues THEN v ELSE IF v = "s1" THEN "i1" ELSE "i0")
          ELSE v)
    ELSE (IF v = Factory THEN "i1" ELSE v)

C6_RoundTrip ==
    [][/\ (last.op = "to_qsettings" /\ last'.op = "from_qsettings"
             /\ inst'[last'.id].cls = inst[last.id].cls)
          => \A f \in FieldNames(inst[last.id].cls) :
                inst'[last'.id].vals[f] =
                    Converted(api, inst[last.id].cls, f, inst[last.id].vals[f])
       /\ (last.op = "from_qsettings" /\ last'.op = "to_qsettings"
             /\ last'.id = last.id)
          => \A p \in DOMAIN qsettings.data :
                /\ p \in DOMAIN qsettings'.data
                /\ qsettings'.data[p] =
                      IF \E f \in FieldNames(inst[last.id].cls) :
                            p = PathOf(api, inst[last.id].cls, f)
                      THEN Converted(api, inst[last.id].cls, p[2], qsettings.data[p])
                      ELSE qsettings.data[p]]_vars

\* C6 as stated: the fields are equal to the original's, and the keys that
\* existed keep their values
C6_Original ==
    [][/\ (last.op = "to_qsettings" /\ last'.op = "from_qsettings"
             /\ inst'[last'.id].cls = inst[last.id].cls)
          => inst'[last'.id].vals = inst[last.id].vals
       /\ (last.op = "from_qsettings" /\ last'.op = "to_qsettings"
             /\ last'.id = last.id)
          => \A p \in DOMAIN qsettings.data :
                /\ p \in DOMAIN qsettings'.data
                /\ qsettings'.data[p] = qsettings.data[p]]_vars

\* new.to_qsettings() directly after new = A.from_qsettings(), while the store
\* held the str "1" under "A/x"
C6_Witness ==
    /\ last.op = "to_qsettings"
    /\ last.after = "from_qsettings"
    /\ inst[last.id].cls = "A"
    /\ \E j \in DOMAIN inst : inst[j].cls = "A" /\ inst[j].vals["x"] = "s1"
    /\ qsettings.data[<<"A", "x">>] = "i1"

\* A.from_qsettings() directly after inst.to_qsettings() of an instance of A
\* whose x was the str "1"
C6_WitnessFrom ==
    /\ last.op = "from_qsettings"
    /\ last.after = "to_qsettings"
    /\ inst[last.id].cls = "A"
    /\ inst[last.id].vals["x"] = "i1"
    /\ qsettings.data[<<"A", "x">>] = "s1"

(***************************************************************************)
(* Properties of the registries.                                           *)
(***************************************************************************)
\* C3: a registration (without a request to overwrite) under a name that is
\* already registered raises or logs an error, and the name still maps to
\* the instance it mapped to.  Checked under SpecLegacy: ConfigRegistry,
\* ConfigManager, config.register.
C3_DuplicateKept ==
    [][(/\ last'.op = "register"
        /\ ~last'.flag
        /\ last'.name \in Keys(Registry))
       => (/\ last'.err \in {"ValueError", "logged"}
           /\ last'.name \in Keys(Registry')
           /\ Lookup(Registry', last'.name) = Lookup(Registry, last'.name))]_vars

\* C8: when the group prefix of the class is already registered, _register
\* removes the existing instance and adds a new one read from the store:
\* afterwards the name maps to an instance that did not exist before, and
\* the registry has exactly one entry for the name.
C8_Replaced ==
    [][(/\ last'.op = "_register"
        /\ last'.name \in Keys(_config_registry))
       => (/\ last'.err = ""
           /\ Lookup(_config_registry', last'.name) \notin DOMAIN inst
           /\ Lookup(_config_registry', last'.name) = last'.id
           /\ Cardinality({k \in 1 .. Len(_config_registry') :
                              _config_registry'[k][1] = last'.name}) = 1)]_vars

\* C10: right after save(), for every registered instance and every field f
\* of it, the store holds the instance's current value under "G/f", G the
\* group the instance persists under (with the `config` decorator the group
\* prefix, which is also the name it is registered under).
C10_Save ==
    last.op = "save" =>
        \A k \in 1 .. Len(Registry) :
            LET i == Registry[k][2]
            IN \A f \in FieldNames(inst[i].cls) :
                  LET p == PathOf(api, inst[i].cls, f)
                  IN /\ p \in DOMAIN qsettings.data
                     /\ qsettings.data[p] = inst[i].vals[f]

(***************************************************************************)
(* Properties of ConfigManagerBase (checked under SpecManager).            *)
(***************************************************************************)
\* a thread is in a mutation of the registry: its item passed the check and
\* is about to be written, or a part of its call is written and the rest is
\* not
Mutating(t) == threads[t].pc \in {"write", "del_inv"} \/ threads[t].undo # <<>>

\* C4: every mutation of the registry is performed while the thread holds
\* _mutex, and no two threads are in a mutation at the same time.
C4_MutexGuards ==
    /\ \A t \in Threads : Mutating(t) => _mutex = t
    /\ \A t, u \in Threads : (Mutating(t) /\ Mutating(u)) => t = u

\* the second half of C4 alone: no two mutations overlap
C4_NoOverlap ==
    \A t, u \in Threads : (Mutating(t) /\ Mutating(u)) => t = u

\* no thread is inside a call of the manager
AllIdle == \A t \in Threads : threads[t].pc = "idle"

\* bidict b is one-to-one: no two names map to the same class and no name
\* maps to two classes, that is, fwdm and invm are inverse to each other
OneToOne(b) ==
    /\ \A n \in DOMAIN b.fwdm :
          b.fwdm[n] \in DOMAIN b.invm /\ b.invm[b.fwdm[n]] = n
    /\ \A c \in DOMAIN b.invm :
          b.invm[c] \in DOMAIN b.fwdm /\ b.fwdm[b.invm[c]] = c

\* a group prefix or a class of the batch is registered in b already, or is
\* repeated within the batch
Duplicated(batch, b) ==
    \E j \in DOMAIN batch :
        \/ batch[j][1] \in DOMAIN b.fwdm
        \/ batch[j][2] \in DOMAIN b.invm
        \/ \E m \in DOMAIN batch :
              m # j /\ (batch[j][1] = batch[m][1] \/ batch[j][2] = batch[m][2])

\* the call of thread t returns in this step
Returns(t) == threads[t].pc # "idle" /\ threads'[t].pc = "idle"

\* what C17 says of a registration that returns: every class of the batch is
\* registered under its group prefix, or, when the batch duplicates, the call
\* raised and the registry is as it was when the call began
RegistrationAllOrNothing(t) ==
    LET th == threads[t]
    IN IF Duplicated(th.batch, th.before)
       THEN threads'[t].err = "DuplicationError" /\ _configs' = th.before
       ELSE /\ threads'[t].err = ""
            /\ \A j \in DOMAIN th.batch :
                  /\ th.batch[j][1] \in DOMAIN _configs'.fwdm
                  /\ _configs'.fwdm[th.batch[j][1]] = th.batch[j][2]

\* what C17 says of an unregister_config(n) that returns: for an unregistered
\* n a KeyError and the registry as it was; after a success nothing is
\* registered under n, so that a class with group prefix n can be registered
UnregisterOutcome(t) ==
    LET th == threads[t]
        n == IF th.pc = "pop" THEN th.name ELSE __group_prefix__(th.name)
    IN IF n \notin DOMAIN th.before.fwdm
       THEN threads'[t].err = "KeyError" /\ _configs' = th.before
       ELSE threads'[t].err = "" =>
               /\ n \notin DOMAIN _configs'.fwdm
               /\ \A c \in DOMAIN _configs'.invm : __group_prefix__(c) # n

\* whenever no call is running the registry is one-to-one; false, because two
\* unlocked calls interleave their duplication checks and their writes
C17_OneToOne == AllIdle => OneToOne(_configs)

\* C17: registration in a ConfigManagerBase with ON_DUP_RAISE is all-or-nothing
\* and keeps the registry one-to-one: a register_config / register_configs
\* call adds every class of its batch or, when a group prefix or class of the
\* batch is registered already or repeated, raises and leaves the registry
\* as it was; whenever no call is running the registry is one-to-one;
\* unregister_config(n) of an unregistered n raises KeyError and changes
\* nothing, and after a successful one n is free again.
C17_Registration ==
    /\ []C17_OneToOne
    /\ [][\A t \in Threads :
             Returns(t) =>
                IF threads[t].call = "unregister_config"
                THEN UnregisterOutcome(t)
                ELSE RegistrationAllOrNothing(t)]_vars

(***************************************************************************)
(* Properties of the editors (checked under SpecEditor).                   *)
(***************************************************************************)
\* the fields of class c that declare "editor" metadata
EditorFields(c) == {f \in FieldNames(c) : editor_info(c, f)}

\* create_editor built exactly one widget for each field with "editor"
\* metadata, none for another field, each showing the field's value
OneWidgetPerEditorField(ed, insts) ==
    LET c == insts[ed.owner].cls
    IN /\ \A f \in EditorFields(c) :
             Cardinality({k \in 1 .. Len(ed.widgets) : ed.widgets[k].field = f}) = 1
       /\ \A k \in 1 .. Len(ed.widgets) :
             /\ ed.widgets[k].field \in EditorFields(c)
             /\ ed.widgets[k].value = insts[ed.owner].vals[ed.widgets[k].field]

C5_WitnessCreate ==
    /\ last.op = "create_editor"
    /\ api = "_pyside_config"
    /\ inst[last.id].cls = "A"
    /\ editors[1].widgets = <<[field |-> "x", value |-> "s1"]>>

(***************************************************************************)
(* Properties of reset, clean and the snapshots (checked under Spec).      *)
(***************************************************************************)
\* the keys of the store in group G
KeysOfGroup(qs, G) == {p \in DOMAIN qs.data : p[1] = G}

\* C11: after reset(exclude=E), every registered group that is not in E has
\* every field equal to its declared default in the instance and in the
\* store; every registered group in E keeps its field values and its stored
\* keys; with E empty every registered group is reset.
C11_Reset ==
    [][last'.op = "reset" =>
        \A k \in 1 .. Len(_config_registry) :
            LET G == _config_registry[k][1]
                i == _config_registry[k][2]
                c == inst[i].cls
            IN IF G \in last'.names
               THEN /\ inst'[i] = inst[i]
                    /\ KeysOfGroup(qsettings', G) = KeysOfGroup(qsettings, G)
                    /\ \A p \in KeysOfGroup(qsettings, G) :
                          qsettings'.data[p] = qsettings.data[p]
               ELSE \A f \in FieldNames(c) :
                       /\ inst'[i].vals[f] = DeclaredDefault(c, f)
                       /\ <<G, f>> \in DOMAIN qsettings'.data
                       /\ qsettings'.data[<<G, f>>] = DeclaredDefault(c, f)]_vars

\* reset(exclude=["Bg"]) with A and B registered: the config of group "Bg"
\* kept the value it was assigned, the config of group "A" is at its
\* defaults, also where the store had lost its keys
C11_Witness ==
    /\ last.op = "reset"
    /\ last.names = {"Bg"}
    /\ Keys(_config_registry) = {"A", "Bg"}
    /\ inst[Lookup(_config_registry, "Bg")].vals["x"] = "s1"
    /\ inst[Lookup(_config_registry, "A")].vals = [x |-> "i0", y |-> "i1"]
    /\ KeysOfGroup(qsettings, "Bg") = {}

C13_SnapshotRoundTrip ==
    (last.op = "restore_snapshot" /\ Registry = snapshot.reg) =>
        \A k \in 1 .. Len(snapshot.data) :
            LET i == Registry[k][2]
                s_G == snapshot.data[k][2]
            IN /\ inst[i].vals = s_G
               /\ \A f \in DOMAIN s_G :
                     LET p == PathOf(api, inst[i].cls, f)
                     IN /\ p \in DOMAIN qsettings.data
                        /\ qsettings.data[p] = s_G[f]

\* C13 for the _pyside_config module alone
C13_SnapshotRoundTripDecorated ==
    api = "_pyside_config" => C13_SnapshotRoundTrip

KeysWrittenBy(i) == {PathOf(api, inst[i].cls, f) : f \in FieldNames(inst[i].cls)}

\* C15: after clean(include=I) of config.py with I not empty, for every
\* registered name n in I the store holds no setting written by the config
\* registered as n, and every other stored setting is unchanged.
C15_CleanInclude ==
    [][(/\ last'.op = "clean"
        /\ api = "config"
        /\ last'.names # {})
       => LET included == {Lookup(config_registry, n) :
                              n \in last'.names \cap Keys(config_registry)}
              removed == UNION {KeysWrittenBy(i) : i \in included}
          IN /\ DOMAIN qsettings'.data \cap removed = {}
             /\ \A p \in DOMAIN qsettings.data \ removed :
                   /\ p \in DOMAIN qsettings'.data
                   /\ qsettings'.data[p] = qsettings.data[p]]_vars

\* C16: after inst.restore_defaults(), every field of inst equals its
\* declared default, for a factory default the value the factory returns
\* (what from_qsettings yields on an empty store), and the store holds the
\* same values (checked under SpecPersist).
C16_RestoreDefaults ==
    last.op = "restore_defaults" =>
        LET c == inst[last.id].cls
        IN /\ inst[last.id].vals = ClsFromQSettings(api, EmptyStore, c)
           /\ \A f \in FieldNames(c) :
                 /\ inst[last.id].vals[f] = DeclaredDefault(c, f)
                 /\ PathOf(api, c, f) \in DOMAIN qsettings.data
                 /\ qsettings.data[PathOf(api, c, f)] = DeclaredDefault(c, f)

\* C16 for the `config` decorator alone (_restore_defaults)
C16_RestoreDefaultsDecorated ==
    api = "_pyside_config" => C16_RestoreDefaults

(***************************************************************************)
(* Properties of the groups (checked under Spec).                          *)
(***************************************************************************)
\* the settings that stores qs and qt do not agree on
ChangedKeys(qs, qt) ==
    {p \in DOMAIN qs.data \cup DOMAIN qt.data :
        ~(p \in DOMAIN qs.data /\ p \in DOMAIN qt.data /\ qs.data[p] = qt.data[p])}

\* the instances of a class whose group prefix is not in groups keep their
\* fields in this step
OtherGroupsUntouched(groups) ==
    \A j \in DOMAIN inst :
        __group_prefix__(inst[j].cls) \notin groups => inst'[j] = inst[j]

\* the groups whose registered instance a reset(exclude) restores
ResetGroups(exclude) ==
    IF exclude = {} THEN Keys(_config_registry)
    ELSE Keys(_config_registry) \ exclude

\* C18: group isolation.  An assignment inst.f = v or an update_value on the
\* instance of group G changes no setting outside "G/" and no field of an
\* instance of another group, and the assignment changes no setting but
\* "G/f"; restore_defaults of the instances of some groups (reset) changes no
\* setting outside these groups and no field of an instance of another group.
C18_GroupIsolation ==
    [][/\ (last'.op \in {"setattr", "update_value"} /\ last'.id # 0) =>
             LET G == __group_prefix__(inst[last'.id].cls)
             IN /\ \A p \in ChangedKeys(qsettings, qsettings') : p[1] = G
                /\ OtherGroupsUntouched({G})
                /\ last'.op = "setattr" =>
                      ChangedKeys(qsettings, qsettings') \subseteq {<<G, last'.key>>}
       /\ last'.op = "reset" =>
             /\ \A p \in ChangedKeys(qsettings, qsettings') :
                   p[1] \in ResetGroups(last'.names)
             /\ OtherGroupsUntouched(ResetGroups(last'.names))]_vars

\* A and B are registered, the instance of B holds an assigned value that the
\* store holds under "Bg/x", and a field of the instance of A was assigned
C18_Witness ==
    /\ last.op = "setattr"
    /\ Keys(_config_registry) = {"A", "Bg"}
    /\ last.id = Lookup(_config_registry, "A")
    /\ inst[Lookup(_config_registry, "Bg")].vals["x"] = "s1"
    /\ <<"Bg", "x">> \in DOMAIN qsettings.data
    /\ qsettings.data[<<"Bg", "x">>] = "s1"
    /\ qsettings.data[<<"A", last.key>>] = "s1"

\* the same after reset(exclude=["Bg"]): the instance of A is back at its
\* defaults, the instance of B and the settings of "Bg" are as assigned
C18_WitnessReset ==
    /\ last.op = "reset"
    /\ last.names = {"Bg"}
    /\ Keys(_config_registry) = {"A", "Bg"}
    /\ inst[Lookup(_config_registry, "Bg")].vals["x"] = "s1"
    /\ qsettings.data[<<"Bg", "x">>] = "s1"
    /\ qsettings.data[<<"A", "x">>] = "i0"

====
